---- MODULE Spec2Model ----
(***************************************************************************)
(* Room resolution, membership and real-time message synchronisation of    *)
(* the mobile chat client (mobile/app/(tabs)/account.tsx, the users        *)
(* screen; mobile/lib/supabaseClient.ts, the chat screens; mobile/app/     *)
(* auth.tsx).  Every await of a backend call is a suspension point: one    *)
(* action is the part of a handler that runs from one response to the next *)
(* request.  The hosted store, the realtime service and the moderation     *)
(* gate are external; they are modelled by what the calls in the source    *)
(* ask of them.                                                            *)
(***************************************************************************)
EXTENDS Integers, Sequences, FiniteSets, TLC

VARIABLES
    scenario,       \* which screens run: "rooms", "seq", "init" or "chat"
    rooms,          \* table rooms: sequence of rows, a row's id is its index
    members,        \* table room_members: sequence of rows
    consoleErrors,  \* what console.error / console.warn have logged
    pc,             \* per flow: the await the flow is suspended at
    loc,            \* per flow: the locals of the suspended flow
    history,        \* completed room-resolution calls, in order of completion
    profiles,       \* table profiles: sequence of rows (primary key: id)
    msgRows,        \* table messages: sequence of rows, a row's id is its index
    param,          \* chat screen: the roomId route parameter, 0 when absent
    mounted,        \* chat screen: the component is mounted
    inits,          \* chat screen: how many times the init effect has run
    user,           \* chat screen state: user
    profile,        \* chat screen state: profile
    roomId,         \* chat screen state: roomId, 0 for null
    loading,        \* chat screen state: loading
    redirected,     \* chat screen: router.replace('/auth') has been issued
    messages,       \* chat screen state: messages, as GiftedChat renders them
    channels,       \* realtime channels open on the client
    events,         \* insert callbacks running: <<flow of the channel, row id>>
    sends           \* handleSend calls awaiting the moderation gate's answer

storeVars == <<rooms, members, profiles, msgRows>>
flowVars == <<consoleErrors, pc, loc, history, roomId, loading, redirected>>
screenVars == <<param, mounted, inits, user, profile, messages, channels, events, sends>>
vars == <<scenario, storeVars, flowVars, screenVars>>

(***************************************************************************)
(* Bounds                                                                  *)
(***************************************************************************)
NumUsers == 2       \* principals that open rooms
MaxCalls == 2       \* room-resolution calls made one after the other
MaxInits == 3       \* runs of the chat screen's init effect
MaxEvents == 3      \* chat screen: parameter changes plus message rows inserted

\* Two devices run the users screen or the chat screen at the same time.
Devices == {1, 2}

(***************************************************************************)
(* Strings are sequences of character codes.                               *)
(***************************************************************************)
Colon == 58

\* the ids of the principals: "a", "b", ...
UserId(i) == <<96 + i>>
Users == {UserId(i) : i \in 1..NumUsers}

GENERAL_ROOM_NAME == <<71, 101, 110, 101, 114, 97, 108>>

\* a < b in the order Array.prototype.sort() uses for strings (code units)
RECURSIVE StrLess(_, _)
StrLess(a, b) ==
    IF b = <<>> THEN FALSE
    ELSE IF a = <<>> THEN TRUE
    ELSE IF Head(a) # Head(b) THEN Head(a) < Head(b)
    ELSE StrLess(Tail(a), Tail(b))

\* [x, y].sort()
\* an array left in argument order
KeepPair(x, y) == <<x, y>>

SortPair(x, y) == IF StrLess(y, x) THEN <<y, x>> ELSE <<x, y>>

\* arr.join(sep) for a two-element array
\* join(''): the elements with nothing between them
JoinBare(arr, sep) == arr[1] \o arr[2]

JoinPair(arr, sep) == arr[1] \o sep \o arr[2]

\* the key without the sort: the ids joined in argument order
participantsKeyUnsorted(userId, otherUserId) ==
    JoinPair(<<userId, otherUserId>>, <<Colon>>)

\* const participantsKey = [userId, otherUserId].sort().join(':')
participantsKey(userId, otherUserId) ==
    JoinPair(SortPair(userId, otherUserId), <<Colon>>)

(***************************************************************************)
(* The relational store, as the client's queries see it.                   *)
(***************************************************************************)
\* .from('rooms').select(...).eq('is_direct', true).eq('name', key)
DirectRoomsNamed(key) ==
    {i \in DOMAIN rooms : rooms[i].is_direct /\ rooms[i].name = key}

\* .from('rooms').select(...).eq('name', GENERAL_ROOM_NAME)
RoomsNamed(name) == {i \in DOMAIN rooms : rooms[i].name = name}

\* .from('room_members').select(...).eq('room_id', r).eq('user_id', u)
MemberRows(r, u) ==
    {i \in DOMAIN members : members[i] = [room_id |-> r, user_id |-> u]}

IsMember(r, u) == MemberRows(r, u) # {}

\* the row .insert({ name, is_direct, created_by }) adds to rooms
RoomRow(name, direct, by) == [name |-> name, is_direct |-> direct, created_by |-> by]

\* the row .insert({ room_id, user_id, role: 'member' }) adds to room_members
MemberRow(r, u) == [room_id |-> r, user_id |-> u]

(***************************************************************************)
(* Flows.  A flow is one run of an async function chain; pc names the      *)
(* backend call it awaits.  loc.caller tells who awaits a room resolver:   *)
(* handleSelectUser of the users screen, or init of the chat screen.       *)
(***************************************************************************)
\* no answer of signInWithPassword yet
NoAnswer == [ok |-> FALSE, message |-> <<>>, status |-> 0]

IdleLoc ==
    [op |-> "none", caller |-> "none", userId |-> <<>>, otherUserId |-> <<>>,
     key |-> <<>>, room |-> 0, todo |-> <<>>, insertedRoom |-> FALSE,
     fail |-> {}, inserts |-> 0, startedAfter |-> 0,
     param |-> 0, snapshot |-> <<>>, subscribed |-> FALSE,
     signIn |-> NoAnswer, signedUp |-> FALSE, signUp |-> NoAnswer, upserted |-> FALSE,
     navigated |-> FALSE, alert |-> "none", lookup |-> "none",
     busy |-> FALSE]

InFlight == {p \in DOMAIN pc : pc[p] \notin {"idle", "done"}}

\* a state setter of an unmounted component changes nothing
SetState(cur, new) == IF mounted THEN new ELSE cur

\* an effect that redirects while the screen is still loading
RedirectWhileLoading(l, u) == l /\ u = [id |-> <<>>, email |-> <<>>]

\* the redirect effect of the chat screen, run when loading or user change:
\* if (!loading && !user) router.replace('/auth')
RedirectEffect(l, u) == ~l /\ u = [id |-> <<>>, email |-> <<>>]

\* the screens that have the effect: the chat screen with the init effect on
\* roomIdParam (the screen with the inline sign-in form has none)
HasRedirect == scenario \in {"init", "chat"}

\* whether the redirect has been issued once the state is l, u
Rendered(l, u) == redirected \/ (HasRedirect /\ mounted /\ RedirectEffect(l, u))

\* The log of a failed load and the flows' notes of failed calls are
\* observations, not program state; the "chat" scenario, where message
\* traffic is what matters, drops them.
Noted(what) == IF scenario = "chat" THEN {} ELSE what

\* what a finished call leaves in the history
CallRecord(l, res) ==
    [op |-> l.op, userId |-> l.userId, otherUserId |-> l.otherUserId,
     result |-> res, insertedRoom |-> l.insertedRoom,
     fail |-> l.fail, inserts |-> l.inserts, startedAfter |-> l.startedAfter]

\* the flow goes on to its next await
Goto(p, newpc, l, logs) ==
    /\ pc' = [pc EXCEPT ![p] = newpc]
    /\ loc' = [loc EXCEPT ![p] = l]
    /\ consoleErrors' = consoleErrors \cup logs
    /\ UNCHANGED <<history, roomId, loading, redirected>>

\* init: setRoomId(r); await loadMessages(r)
StartLoad(p, l, r, logs) ==
    /\ pc' = [pc EXCEPT ![p] = "load_sent"]
    /\ loc' = [loc EXCEPT ![p] = [l EXCEPT !.room = r]]
    /\ roomId' = SetState(roomId, r)
    /\ consoleErrors' = consoleErrors \cup logs
    /\ UNCHANGED <<history, loading, redirected>>

\* the flows of a chat screen that resolve the room, load and subscribe: the
\* init effect, and handleAuth of the screen with the inline sign-in form
ScreenFlows == {"init", "inline"}

\* return existing.id / return created.id, and what the caller does next
Return(p, l, logs) ==
    IF l.caller \in ScreenFlows
    THEN StartLoad(p, l, l.room, logs)
    ELSE /\ pc' = [pc EXCEPT ![p] = "idle"]
         /\ loc' = [loc EXCEPT ![p] = IdleLoc]
         /\ consoleErrors' = consoleErrors \cup logs
         /\ history' = Append(history, CallRecord(l, l.room))
         /\ UNCHANGED <<roomId, loading, redirected>>

\* throw selectError / throw insertError.  handleSelectUser catches and logs;
\* init catches, logs, and its finally block runs setLoading(false)
Throw(p, l) ==
    IF l.caller \in ScreenFlows
    THEN /\ pc' = [pc EXCEPT ![p] = "done"]
         /\ loc' = [loc EXCEPT ![p] = IF l.caller = "inline"
                                      THEN [l EXCEPT !.alert = "Auth error", !.busy = FALSE]
                                      ELSE l]
         /\ consoleErrors' = consoleErrors \cup
                {<<IF l.caller = "inline" THEN "auth" ELSE "init", "other">>}
         /\ loading' = SetState(loading, FALSE)
         /\ redirected' = Rendered(SetState(loading, FALSE), user)
         /\ UNCHANGED <<history, roomId>>
    ELSE /\ pc' = [pc EXCEPT ![p] = "idle"]
         /\ loc' = [loc EXCEPT ![p] = IdleLoc]
         /\ consoleErrors' = consoleErrors \cup
                {<<IF l.caller = "users" THEN "open_direct_room" ELSE "init", "other">>}
         /\ history' = Append(history, CallRecord(l, 0))
         /\ UNCHANGED <<roomId, loading, redirected>>

(***************************************************************************)
(* Users screen: getOrCreateDirectRoom                                     *)
(***************************************************************************)
CallBudget == IF scenario = "seq" THEN MaxCalls ELSE Cardinality(Devices)

CanStart(p) ==
    /\ scenario \in {"rooms", "seq"}
    /\ pc[p] = "idle"
    /\ Len(history) + Cardinality(InFlight) < CallBudget
    /\ scenario = "seq" => InFlight = {}

\* handleSelectUser -> getOrCreateDirectRoom(currentUserId, profile.id), up to
\* the await of the lookup
StartDirect(p, a, b) ==
    /\ CanStart(p)
    /\ a # b
    /\ Goto(p, "dr_lookup",
            [IdleLoc EXCEPT !.op = "direct", !.caller = "users",
                            !.userId = a, !.otherUserId = b,
                            !.key = participantsKey(a, b),
                            !.startedAfter = Len(history)], {})
    /\ UNCHANGED <<scenario, storeVars, screenVars>>

\* a lookup that may miss the rows that match
LookupAnswersStale(match) ==
    {[data |-> r, error |-> "null"] : r \in match}
        \cup {[data |-> 0, error |-> e] : e \in {"null", "PGRST116", "other"}}

\* What a maybeSingle() lookup can answer when `match` are the matching rows:
\* one of them (limit 1, in no stated order), no row (error null, or the
\* PGRST116 "no rows" error of older clients), or another error.
LookupAnswers(match) ==
    {[data |-> r, error |-> "null"] : r \in match}
        \cup (IF match = {}
              THEN {[data |-> 0, error |-> "null"], [data |-> 0, error |-> "PGRST116"]}
              ELSE {})
        \cup {[data |-> 0, error |-> "other"]}

\* selectError of the room lookup, as the flow holds it until its next await
\* answers: the error's code, "null" when there is none
Looked(l, ans) == [l EXCEPT !.lookup = ans.error]

\* a lookup that throws whenever it has an error
LookupThrowsAny(error) == error # "null"

\* if (selectError && selectError.code !== 'PGRST116') throw selectError
LookupThrows(error) == error # "null" /\ error # "PGRST116"

\* a flow that ensures the membership of the caller only
EnsureCaller(p, l, r, who) ==
    Goto(p, "rm_check", [l EXCEPT !.room = r, !.todo = <<Head(who)>>], {})

\* the flow after the room is known: ensureRoomMember for each of `who`
EnsureMembers(p, l, r, who) ==
    Goto(p, "rm_check", [l EXCEPT !.room = r, !.todo = who], {})

DirectLookup(p) ==
    /\ pc[p] = "dr_lookup"
    /\ \E ans \in LookupAnswers(DirectRoomsNamed(loc[p].key)) :
          LET l == Looked(loc[p], ans)
          IN  IF LookupThrows(ans.error)
              THEN Throw(p, [l EXCEPT !.fail = {"room"}])
              ELSE IF ans.data # 0
              THEN EnsureMembers(p, l, ans.data, <<l.userId, l.otherUserId>>)
              ELSE Goto(p, "dr_insert", l, {})
    /\ UNCHANGED <<scenario, storeVars, screenVars>>

\* the insert answers: the created row, or an error (throw insertError)
DirectInsert(p) ==
    /\ pc[p] = "dr_insert"
    /\ LET l == [loc[p] EXCEPT !.lookup = "none"]
       IN  \/ /\ rooms' = Append(rooms, RoomRow(l.key, TRUE, l.userId))
              /\ EnsureMembers(p, [l EXCEPT !.insertedRoom = TRUE], Len(rooms) + 1,
                               <<l.userId, l.otherUserId>>)
           \/ /\ UNCHANGED rooms
              /\ Throw(p, [l EXCEPT !.fail = {"room"}])
    /\ UNCHANGED <<scenario, members, profiles, msgRows, screenVars>>

(***************************************************************************)
(* Chat screen: getOrCreateGeneralRoom                                     *)
(***************************************************************************)
StartGeneral(p, a) ==
    /\ CanStart(p)
    /\ Goto(p, "gr_lookup",
            [IdleLoc EXCEPT !.op = "general", !.caller = "chat", !.userId = a,
                            !.key = GENERAL_ROOM_NAME,
                            !.startedAfter = Len(history)], {})
    /\ UNCHANGED <<scenario, storeVars, screenVars>>

GeneralLookup(p) ==
    /\ pc[p] = "gr_lookup"
    /\ \E ans \in LookupAnswers(RoomsNamed(GENERAL_ROOM_NAME)) :
          LET l == Looked(loc[p], ans)
          IN  IF LookupThrows(ans.error)
              THEN Throw(p, [l EXCEPT !.fail = @ \cup {"room"}])
              ELSE IF ans.data # 0
              THEN EnsureMembers(p, l, ans.data, <<l.userId>>)
              ELSE Goto(p, "gr_insert", l, {})
    /\ UNCHANGED <<scenario, storeVars, screenVars>>

GeneralInsert(p) ==
    /\ pc[p] = "gr_insert"
    /\ LET l == [loc[p] EXCEPT !.lookup = "none"]
       IN  \/ /\ rooms' = Append(rooms, RoomRow(GENERAL_ROOM_NAME, FALSE, l.userId))
              /\ EnsureMembers(p, [l EXCEPT !.insertedRoom = TRUE], Len(rooms) + 1,
                               <<l.userId>>)
           \/ /\ UNCHANGED rooms
              /\ Throw(p, [l EXCEPT !.fail = @ \cup {"room"}])
    /\ UNCHANGED <<scenario, members, profiles, msgRows, screenVars>>

(***************************************************************************)
(* ensureRoomMember, users screen and chat screen                          *)
(***************************************************************************)
\* users screen: if (insertError && insertError.code !== '23505') console.error
UsersLogsInsertError(code) == code # "null" /\ code # "23505"

\* chat screen: if (insertError) console.error
ChatLogsInsertError(code) == code # "null"

LogsInsertError(op, code) ==
    IF op = "direct" THEN UsersLogsInsertError(code) ELSE ChatLogsInsertError(code)

\* if (error && error.code !== 'PGRST116') { console.error; return }
CheckReturnsEarly(error) == error # "null" /\ error # "PGRST116"

\* an ensureRoomMember that inserts whatever the lookup found
InsertsAlways(data) == TRUE

\* if (!data) insert
InsertsWhen(data) == data = 0

\* ensureRoomMember is over: the next one, or the room's id is returned
MemberDone(p, l, res, logs) ==
    LET l2 == [l EXCEPT !.todo = Tail(l.todo),
                        !.inserts = l.inserts + (IF res \in {"found", "checkErr"} THEN 0 ELSE 1),
                        !.fail = IF res \in {"checkErr", "insertErr"}
                                 THEN l.fail \cup {"member"} ELSE l.fail]
    IN  IF l2.todo = <<>> THEN Return(p, l2, logs) ELSE Goto(p, "rm_check", l2, logs)

\* the membership lookup answers
MemberCheck(p) ==
    /\ pc[p] = "rm_check"
    /\ LET l == loc[p]
       IN  \E ans \in LookupAnswers(MemberRows(l.room, Head(l.todo))) :
              IF CheckReturnsEarly(ans.error)
              THEN MemberDone(p, l, "checkErr", {<<l.caller, "check_member", ans.error>>})
              ELSE IF InsertsWhen(ans.data)
              THEN Goto(p, "rm_insert", l, {})
              ELSE MemberDone(p, l, "found", {})
    /\ UNCHANGED <<scenario, storeVars, screenVars>>

\* What the store answers to the membership insert: the unique key on
\* (room_id, user_id) rejects a second row with 23505; any insert can fail.
MemberInsertAnswers(r, u) ==
    (IF IsMember(r, u) THEN {"23505"} ELSE {"null"}) \cup {"other"}

MemberInsert(p) ==
    /\ pc[p] = "rm_insert"
    /\ LET l == loc[p]
           u == Head(l.todo)
       IN  \E code \in MemberInsertAnswers(l.room, u) :
              /\ members' = IF code = "null"
                            THEN Append(members, MemberRow(l.room, u))
                            ELSE members
              /\ MemberDone(p, l,
                            CASE code = "null" -> "inserted"
                              [] code = "23505" -> "conflict"
                              [] OTHER -> "insertErr",
                            IF LogsInsertError(l.op, code)
                            THEN {<<l.caller, "insert_member", code>>} ELSE {})
    /\ UNCHANGED <<scenario, rooms, profiles, msgRows, screenVars>>

(***************************************************************************)
(* Chat screen (tabs): the init effect                                     *)
(***************************************************************************)
NoUser == [id |-> <<>>, email |-> <<>>]
NoProfile == <<>>

\* the principal signed in on the device that runs the chat screen
Me == UserId(1)
MyEmail == <<97, 64, 97>>
\* what supabase.auth.getUser() can answer: no session, or the device's account
GetUserAnswers == {NoUser, [id |-> Me, email |-> MyEmail]}

UserPrefix == <<117, 115, 101, 114, 45>>
SliceLen == 8
\* a slice that keeps the whole string
SliceAll(str, n) == str

\* str.slice(0, n)
Slice(str, n) == SubSeq(str, 1, IF Len(str) < n THEN Len(str) ELSE n)

\* const username = email ?? `user-${userId.slice(0, 8)}`
deriveUsername(userId, email) ==
    IF email # <<>> THEN email ELSE UserPrefix \o Slice(userId, SliceLen)

\* .from('profiles').select(...).eq('id', userId)
ProfileRows(userId) == {i \in DOMAIN profiles : profiles[i].id = userId}

\* the row .upsert({ id: userId, username }, ...) writes
ProfileRow(userId, username) == [id |-> userId, username |-> username]

\* a plain insert: the row is added whatever the table holds
InsertRow(table, row) == Append(table, row)

\* .upsert(row, { onConflict: 'id' }): the row with that id is replaced, or
\* the row is added when there is none
Upsert(table, row) ==
    IF \E i \in DOMAIN table : table[i].id = row.id
    THEN [i \in DOMAIN table |-> IF table[i].id = row.id THEN row ELSE table[i]]
    ELSE Append(table, row)

\* the effect's body: init() runs up to the await of getUser()
RunInit(g, rp) ==
    /\ pc' = [pc EXCEPT ![g] = "get_user"]
    /\ loc' = [loc EXCEPT ![g] = [IdleLoc EXCEPT !.caller = "init", !.param = rp]]
    /\ loading' = SetState(loading, TRUE)
    /\ redirected' = Rendered(SetState(loading, TRUE), user)

\* getUser() answers.  No user: setUser(null), return, finally setLoading(false).
\* A user: setUser(user), then ensureProfile up to the await of the upsert.
GetUserResp(g) ==
    /\ pc[g] = "get_user"
    /\ \E u \in GetUserAnswers :
          /\ user' = SetState(user, u)
          /\ IF u = NoUser
             THEN /\ pc' = [pc EXCEPT ![g] = "done"]
                  /\ loading' = SetState(loading, FALSE)
                  /\ redirected' = Rendered(SetState(loading, FALSE), SetState(user, u))
                  /\ UNCHANGED loc
             ELSE /\ pc' = [pc EXCEPT ![g] = "pf_upsert"]
                  /\ loc' = [loc EXCEPT ![g].userId = u.id, ![g].key = u.email]
                  /\ redirected' = Rendered(loading, SetState(user, u))
                  /\ UNCHANGED loading
    /\ UNCHANGED <<scenario, storeVars, consoleErrors, history, roomId,
                   param, mounted, inits, profile, messages, channels, events, sends>>

\* an ensureProfile that throws its upsert error
UpsertErrorThrowsAlways == TRUE

\* ensureProfile on an upsert error: console.error and return; init goes on
\* (AfterProfile below)
UpsertErrorThrows == FALSE

\* after ensureProfile: the branch on roomIdParam
AfterProfile(g, l, logs) ==
    IF l.param # 0
    THEN StartLoad(g, l, l.param, logs)
    ELSE Goto(g, "gr_lookup",
              [l EXCEPT !.op = "general", !.key = GENERAL_ROOM_NAME], logs)

\* The message traffic of the "chat" scenario runs against a backend whose
\* profile calls answer; the "init" scenario injects their failures too.
ProfileFaults == scenario # "chat"

\* the upsert answers: error (console.error, return) or the await of the select
ProfileUpsertResp(g) ==
    /\ pc[g] = "pf_upsert"
    /\ LET l == loc[g]
       IN  \/ /\ ProfileFaults
              /\ profiles' = profiles
              /\ IF UpsertErrorThrows
                 THEN Throw(g, [l EXCEPT !.fail = @ \cup {"profile"}])
                 ELSE AfterProfile(g, [l EXCEPT !.fail = @ \cup {"profile"}],
                                   {<<"init", "upsert_profile", "other">>})
           \/ /\ profiles' = Upsert(profiles,
                                    ProfileRow(l.userId, deriveUsername(l.userId, l.key)))
              /\ Goto(g, "pf_select", [l EXCEPT !.upserted = TRUE], {})
    /\ UNCHANGED <<scenario, rooms, members, msgRows, screenVars>>

\* the select answers: if (data) setProfile(data)
ProfileSelectResp(g) ==
    /\ pc[g] = "pf_select"
    /\ LET l == loc[g]
       IN  /\ \/ \E i \in ProfileRows(l.userId) :
                    /\ Cardinality(ProfileRows(l.userId)) = 1
                    /\ profile' = SetState(profile, profiles[i])
              \/ /\ ProfileFaults
                 /\ UNCHANGED profile
           /\ AfterProfile(g, l, {})
    /\ UNCHANGED <<scenario, storeVars, param, mounted, inits, user, messages,
                   channels, events, sends>>

(***************************************************************************)
(* Chat screen: loadMessages, subscribeToMessages                          *)
(***************************************************************************)
LoadLimit == 50

\* the rows of room r, newest first: .eq('room_id', r).order('created_at',
\* { ascending: false }); created_at is the server's clock at the insert
RECURSIVE RowsDesc(_, _)
RowsDesc(r, n) ==
    IF n = 0 THEN <<>>
    ELSE IF msgRows[n].room_id = r THEN <<msgRows[n]>> \o RowsDesc(r, n - 1)
    ELSE RowsDesc(r, n - 1)

\* .limit(50)
Limit(rows, n) == SubSeq(rows, 1, IF Len(rows) < n THEN Len(rows) ELSE n)

\* toGiftedMessage
toGiftedMessage(row) ==
    [_id |-> row.id, createdAt |-> row.created_at, user |-> row.user_id]

\* GiftedChat.append(currentMessages, messages): the new ones go in front
GiftedChatAppend(currentMessages, msgs) == msgs \o currentMessages

\* (data as MessageRow[]).map(toGiftedMessage)
MapRows(rows) == [i \in DOMAIN rows |-> toGiftedMessage(rows[i])]

\* the server runs the query: the rows it holds at that moment
LoadQuery(g) ==
    /\ pc[g] = "load_sent"
    /\ Goto(g, "load_wait",
            [loc[g] EXCEPT !.snapshot = Limit(RowsDesc(loc[g].room, Len(msgRows)),
                                              LoadLimit)], {})
    /\ UNCHANGED <<scenario, storeVars, screenVars>>

\* if (error) { console.error; return }
LoadReturnsEarly(failed) == failed

\* what init does once loadMessages has returned
SubscribesAfterLoad(failed) == TRUE

\* The load answers, with the rows or with an error.  loadMessages: on error
\* console.error and return, else setMessages(mapped).  Back in init:
\* subscribeToMessages(room), then the finally block, setLoading(false).
LoadResp(g) ==
    /\ pc[g] = "load_wait"
    /\ \E failed \in BOOLEAN :
       LET l == [loc[g] EXCEPT !.fail = IF failed THEN @ \cup Noted({"load"}) ELSE @]
           sub == SubscribesAfterLoad(failed)
       IN  /\ messages' = IF LoadReturnsEarly(failed) THEN messages
                          ELSE SetState(messages, MapRows(l.snapshot))
           /\ consoleErrors' = IF LoadReturnsEarly(failed)
                               THEN consoleErrors \cup Noted({<<"init", "load_messages", "other">>})
                               ELSE consoleErrors
           /\ channels' = IF sub THEN channels \cup {[flow |-> g, room |-> l.room]}
                          ELSE channels
           /\ loc' = [loc EXCEPT ![g] = [l EXCEPT !.subscribed = sub, !.snapshot = <<>>,
                                                  !.busy = FALSE]]
           /\ pc' = [pc EXCEPT ![g] = "done"]
           /\ loading' = SetState(loading, FALSE)
           /\ redirected' = Rendered(SetState(loading, FALSE), user)
    /\ UNCHANGED <<scenario, storeVars, history, roomId, param, mounted, inits,
                   user, profile, events, sends>>

\* what the environment of the chat screen has done so far
Spent == (inits - 1) + Len(msgRows)

\* the effect's cleanup: supabase.removeAllChannels()
Cleanup == {}

\* roomIdParam changes: the cleanup runs, then the effect again
ParamChange(rp) ==
    /\ mounted
    /\ rp # param
    /\ inits < MaxInits
    /\ Spent < MaxEvents
    /\ param' = rp
    /\ inits' = inits + 1
    /\ channels' = Cleanup
    /\ RunInit(inits + 1, rp)
    /\ UNCHANGED <<scenario, storeVars, consoleErrors, history, roomId,
                   mounted, user, profile, messages, events, sends>>

\* The screen unmounts: the cleanup runs.  The component's state is gone, and
\* the callbacks and sends still in flight end in setters that change nothing:
\* they leave the model here.  The init flows run on.
Unmount ==
    /\ mounted
    /\ mounted' = FALSE
    /\ channels' = Cleanup
    /\ messages' = <<>>
    /\ events' = {}
    /\ sends' = {}
    /\ UNCHANGED <<scenario, storeVars, flowVars, param, inits, user, profile>>

(***************************************************************************)
(* Chat screen: inserts, the subscription callback, handleSend             *)
(***************************************************************************)
\* a row the store adds to messages, and the callbacks the realtime service
\* invokes: one per open channel whose filter room_id=eq.<room> matches
NewRow(r, u) ==
    [id |-> Len(msgRows) + 1, room_id |-> r, user_id |-> u,
     created_at |-> Len(msgRows) + 1]

Notified(row) == {<<ch.flow, row.id>> : ch \in {c \in channels : c.room = row.room_id}}

\* another client sends to a room (followed while the screen is mounted)
RemoteInsert(r, u) ==
    /\ mounted
    /\ Spent < MaxEvents
    /\ msgRows' = Append(msgRows, NewRow(r, u))
    /\ events' = events \cup Notified(NewRow(r, u))
    /\ UNCHANGED <<scenario, rooms, members, profiles, flowVars, param, mounted,
                   inits, user, profile, messages, channels, sends>>

\* setMessages((prev) => prev.some((m) => m._id === msg._id) ? prev
\*                       : GiftedChat.append(prev, [msg]))
OnInsert(prev, msg) ==
    IF \E i \in DOMAIN prev : prev[i]._id = msg._id
    THEN prev
    ELSE GiftedChatAppend(prev, <<msg>>)

\* the callback's profile lookup answers and the callback merges the row
EventApply(e) ==
    /\ e \in events
    /\ events' = events \ {e}
    /\ messages' = SetState(messages, OnInsert(messages, toGiftedMessage(msgRows[e[2]])))
    /\ UNCHANGED <<scenario, storeVars, flowVars, param, mounted, inits, user,
                   profile, channels, sends>>

\* What the moderation gate can answer: an error, no data, a verdict that
\* refuses, or the persisted row (inside a verdict that allows, or bare).
GateError == [error |-> TRUE, data |-> "null", allowed |-> FALSE, id |-> 0]
GateNoData == [error |-> FALSE, data |-> "null", allowed |-> FALSE, id |-> 0]
GateRefused == [error |-> FALSE, data |-> "verdict", allowed |-> FALSE, id |-> 0]
GateAllowed(id) == [error |-> FALSE, data |-> "verdict", allowed |-> TRUE, id |-> id]
GateRow(id) == [error |-> FALSE, data |-> "row", allowed |-> FALSE, id |-> id]

\* if (!roomId || !user) return
CanSend == mounted /\ roomId # 0 /\ user # NoUser

\* handleSend up to the await of the gate, and the gate's work: it persists
\* the row unless it refuses
SendInvoke ==
    /\ CanSend
    /\ \/ /\ sends' = sends \cup {[row |-> 0, user |-> user.id]}
          /\ UNCHANGED <<msgRows, events>>
       \/ /\ Spent < MaxEvents
          /\ LET row == NewRow(roomId, user.id)
             IN  /\ msgRows' = Append(msgRows, row)
                 /\ events' = events \cup Notified(row)
                 /\ sends' = sends \cup {[row |-> row.id, user |-> user.id]}
    /\ UNCHANGED <<scenario, rooms, members, profiles, flowVars, param, mounted,
                   inits, user, profile, messages, channels>>

\* a handleSend that returns on a transport error only
SendAbortsOnErrorOnly(ans) == ans.error

\* if (error) return;  if (!data || ('allowed' in data && !data.allowed)) return
SendAborts(ans) ==
    ans.error \/ ans.data = "null" \/ (ans.data = "verdict" /\ ~ans.allowed)

\* setMessages((prev) => GiftedChat.append(prev, [optimistic]))
OnSent(prev, optimistic) == GiftedChatAppend(prev, <<optimistic>>)

\* the answers the gate can give for a send that persisted row `id` (0: none)
GateAnswers(id) ==
    IF id = 0 THEN {GateError, GateNoData, GateRefused}
    ELSE {GateAllowed(id), GateRow(id)}

\* const saved = data.message ?? data; the optimistic entry built from it
\* (saved.created_at ? new Date(saved.created_at) : new Date())
Optimistic(ans, uid) ==
    [_id |-> ans.id,
     createdAt |-> IF ans.id \in DOMAIN msgRows THEN msgRows[ans.id].created_at
                   ELSE Len(msgRows) + 1,
     user |-> uid]

\* the gate's answer arrives
SendResp(s) ==
    /\ s \in sends
    /\ sends' = sends \ {s}
    /\ \E ans \in GateAnswers(s.row) :
          IF SendAborts(ans)
          THEN /\ messages' = messages
               /\ consoleErrors' = consoleErrors \cup
                      {<<"send", IF ans.error THEN "other" ELSE "blocked">>}
          ELSE /\ messages' = SetState(messages, OnSent(messages, Optimistic(ans, s.user)))
               /\ UNCHANGED consoleErrors
    /\ UNCHANGED <<scenario, storeVars, pc, loc, history, roomId, loading, redirected, param,
                   mounted, inits, user, profile, channels, events>>

(***************************************************************************)
(* Sign-in: handleAuth of the auth screen (auth.tsx) and of the chat       *)
(* screen with the inline form.  A run is one press of the button, which   *)
(* is disabled while a run is in flight.                                   *)
(***************************************************************************)
\* 'Invalid login credentials', the message the inline form looks for
InvalidLoginCredentials ==
    <<73, 110, 118, 97, 108, 105, 100, 32, 108, 111, 103, 105, 110, 32, 99,
      114, 101, 100, 101, 110, 116, 105, 97, 108, 115>>

\* 'invalid login credentials', what the auth screen looks for
invalidLoginCredentials ==
    <<105, 110, 118, 97, 108, 105, 100, 32, 108, 111, 103, 105, 110, 32,
      99, 114, 101, 100, 101, 110, 116, 105, 97, 108, 115>>

\* 'Email not confirmed'
EmailNotConfirmed ==
    <<69, 109, 97, 105, 108, 32, 110, 111, 116, 32, 99, 111, 110, 102, 105,
      114, 109, 101, 100>>

\* 'Network request failed'
NetworkRequestFailed ==
    <<78, 101, 116, 119, 111, 114, 107, 32, 114, 101, 113, 117, 101, 115,
      116, 32, 102, 97, 105, 108, 101, 100>>

\* signInError.status === 400
BadRequest == 400

\* String.prototype.toLowerCase, on the letters A-Z
toLowerCase(str) ==
    [i \in DOMAIN str |-> IF str[i] \in 65..90 THEN str[i] + 32 ELSE str[i]]

\* String.prototype.includes
includes(str, search) ==
    \E k \in 0..(Len(str) - Len(search)) :
        SubSeq(str, k + 1, k + Len(search)) = search

\* the errors signInWithPassword can answer with; without an error it
\* answers with the user (the client library turns a response without user
\* or session into an error)
SignedIn == [ok |-> TRUE, message |-> <<>>, status |-> 200]
SignInErrors ==
    {[ok |-> FALSE, message |-> InvalidLoginCredentials, status |-> BadRequest],
     [ok |-> FALSE, message |-> invalidLoginCredentials, status |-> 401],
     [ok |-> FALSE, message |-> EmailNotConfirmed, status |-> BadRequest],
     [ok |-> FALSE, message |-> NetworkRequestFailed, status |-> 0]}

\* the accounts of the backend: one with an email, one without
Accounts == {[id |-> UserId(1), email |-> MyEmail], [id |-> UserId(2), email |-> <<>>]}

\* auth.tsx: message?.toLowerCase().includes('invalid login credentials')
\* || status === 400
AuthScreenInvalidCreds(error) ==
    \/ includes(toLowerCase(error.message), invalidLoginCredentials)
    \/ error.status = BadRequest

\* inline form: signInError.message.includes('Invalid login credentials')
InlineInvalidCreds(error) == includes(error.message, InvalidLoginCredentials)

\* a handleAuth that signs up after whatever sign-in error
invalidCredsAlways(caller, error) == TRUE

\* the condition on which handleAuth falls back to sign-up
invalidCreds(caller, error) ==
    IF caller = "authScreen" THEN AuthScreenInvalidCreds(error)
    ELSE InlineInvalidCreds(error)

Runs == 1..MaxCalls

\* the run is over with this alert (none: "none"); auth screen: finally
\* setLoading(false) of its own state; inline: setAuthLoading(false),
\* setLoading(false)
EndRun(g, l, alert, logs) ==
    /\ pc' = [pc EXCEPT ![g] = "done"]
    /\ loc' = [loc EXCEPT ![g] = [l EXCEPT !.alert = alert, !.busy = FALSE]]
    /\ consoleErrors' = consoleErrors \cup logs
    /\ loading' = IF l.caller = "inline" THEN SetState(loading, FALSE) ELSE loading
    /\ UNCHANGED <<history, roomId, redirected>>

\* catch (error): console.error('Auth error', error); Alert.alert('Auth error', ...)
AuthCatch(g, l) == EndRun(g, l, "Auth error", {<<"auth", "other">>})

\* the button is pressed: handleAuth up to the await of signInWithPassword,
\* or the 'Missing info' alert when a field is empty
StartAuth(g, impl, filled) ==
    /\ scenario = "auth"
    /\ pc[g] = "idle"
    /\ \A h \in 1..(g - 1) : pc[h] = "done"
    /\ impl = "inline" => user = NoUser
    /\ LET l == [IdleLoc EXCEPT !.caller = impl, !.busy = TRUE]
       IN  IF filled THEN Goto(g, "sign_in", l, {})
           ELSE EndRun(g, l, "Missing info", {})
    /\ UNCHANGED <<scenario, storeVars, screenVars>>

\* ensureProfile(user.id, user.email) is called: the auth screen's own, or
\* after setUser(authedUser) the chat screen's
ToProfile(g, l, acct) ==
    LET l2 == [l EXCEPT !.userId = acct.id, !.key = acct.email]
    IN  IF l.caller = "authScreen"
        THEN /\ Goto(g, "au_upsert", l2, {})
             /\ UNCHANGED user
        ELSE /\ Goto(g, "pf_upsert", [l2 EXCEPT !.navigated = TRUE], {})
             /\ user' = SetState(user, acct)

\* signInWithPassword answers
SignInResp(g) ==
    /\ pc[g] = "sign_in"
    /\ \/ \E acct \in Accounts :
             ToProfile(g, [loc[g] EXCEPT !.signIn = SignedIn], acct)
       \/ \E e \in SignInErrors :
             LET l == [loc[g] EXCEPT !.signIn = e]
             IN  /\ IF invalidCreds(l.caller, e)
                    THEN Goto(g, "sign_up", l, {})
                    ELSE AuthCatch(g, l)
                 /\ UNCHANGED user
    /\ UNCHANGED <<scenario, storeVars, param, mounted, inits, profile, messages,
                   channels, events, sends>>

\* what signUp can answer: an error; a user and a session; a user whose
\* confirmation is pending (no session); no user
SignUpAnswers ==
    {[error |-> TRUE, user |-> FALSE, session |-> FALSE],
     [error |-> FALSE, user |-> TRUE, session |-> TRUE],
     [error |-> FALSE, user |-> TRUE, session |-> FALSE],
     [error |-> FALSE, user |-> FALSE, session |-> FALSE]}

\* a handler that stops only when no user came back
SignUpStopsNoUser(caller, ans) == ~ans.user

\* auth screen: if (!signUpData.user || !signUpData.session) 'Check your email'
\* inline form: if (!authedUser) 'No user returned from Supabase'
SignUpStops(caller, ans) ==
    IF caller = "authScreen" THEN ~ans.user \/ ~ans.session ELSE ~ans.user

\* signUp answers
SignUpResp(g) ==
    /\ pc[g] = "sign_up"
    /\ \E ans \in SignUpAnswers : \E acct \in Accounts :
          LET l == [loc[g] EXCEPT !.signedUp = TRUE, !.signUp = ans]
          IN  IF ans.error
              THEN AuthCatch(g, l) /\ UNCHANGED user
              ELSE IF SignUpStops(l.caller, ans)
              THEN /\ EndRun(g, l, IF l.caller = "authScreen" THEN "Check your email"
                                   ELSE "No user returned from Supabase", {})
                   /\ UNCHANGED user
              ELSE ToProfile(g, l, acct)
    /\ UNCHANGED <<scenario, storeVars, param, mounted, inits, profile, messages,
                   channels, events, sends>>

\* auth screen: the upsert of ensureProfile answers (an error is logged),
\* then router.replace('/(tabs)/chat')
AuthUpsertResp(g) ==
    /\ pc[g] = "au_upsert"
    /\ LET l == [loc[g] EXCEPT !.navigated = TRUE]
       IN  \/ /\ profiles' = profiles
              /\ EndRun(g, [l EXCEPT !.fail = @ \cup {"profile"}], "none",
                        {<<"auth", "upsert_profile", "other">>})
           \/ /\ profiles' = Upsert(profiles,
                                    ProfileRow(l.userId, deriveUsername(l.userId, l.key)))
              /\ EndRun(g, [l EXCEPT !.upserted = TRUE], "none", {})
    /\ UNCHANGED <<scenario, rooms, members, msgRows, screenVars>>

(***************************************************************************)
(* Specifications                                                          *)
(***************************************************************************)
InitScreenOff ==
    /\ param = 0
    /\ mounted = FALSE
    /\ inits = 0
    /\ user = NoUser
    /\ profile = NoProfile
    /\ roomId = 0
    /\ loading = TRUE
    /\ redirected = FALSE
    /\ messages = <<>>
    /\ channels = {}
    /\ events = {}
    /\ sends = {}

InitStore ==
    /\ rooms = <<>>
    /\ members = <<>>
    /\ profiles = <<>>
    /\ msgRows = <<>>
    /\ consoleErrors = {}
    /\ pc = [p \in Devices |-> "idle"]
    /\ loc = [p \in Devices |-> IdleLoc]
    /\ history = <<>>
    /\ InitScreenOff

RoomStep ==
    \/ \E p \in Devices : \E a, b \in Users : StartDirect(p, a, b)
    \/ \E p \in Devices : \E a \in Users : StartGeneral(p, a)
    \/ \E p \in Devices : DirectLookup(p)
    \/ \E p \in Devices : DirectInsert(p)
    \/ \E p \in Devices : GeneralLookup(p)
    \/ \E p \in Devices : GeneralInsert(p)
    \/ \E p \in Devices : MemberCheck(p)
    \/ \E p \in Devices : MemberInsert(p)

\* callers on two devices, their calls interleaved
InitRooms == scenario = "rooms" /\ InitStore
SpecRooms == InitRooms /\ [][RoomStep]_vars

\* one call after the other: a call starts only when none is in flight
InitSeq == scenario = "seq" /\ InitStore
SpecSeq == InitSeq /\ [][RoomStep]_vars

\* The chat screen of one device.  The store holds the direct rooms of the
\* device's principal with two others, as the users screen leaves them; the
\* effect has run once.
Flows == 1..MaxInits

DirectRooms ==
    <<RoomRow(participantsKey(UserId(1), UserId(2)), TRUE, UserId(1)),
      RoomRow(participantsKey(UserId(1), UserId(3)), TRUE, UserId(1))>>

InitScreen(params) ==
    /\ rooms = DirectRooms
    /\ members = <<MemberRow(1, UserId(1)), MemberRow(1, UserId(2)),
                   MemberRow(2, UserId(1)), MemberRow(2, UserId(3))>>
    /\ profiles = <<>>
    /\ msgRows = <<>>
    /\ consoleErrors = {}
    /\ history = <<>>
    /\ param \in params
    /\ mounted = TRUE
    /\ inits = 1
    /\ pc = [g \in Flows |-> IF g = 1 THEN "get_user" ELSE "idle"]
    /\ loc = [g \in Flows |->
                IF g = 1 THEN [IdleLoc EXCEPT !.caller = "init", !.param = param]
                ELSE IdleLoc]
    /\ user = NoUser
    /\ profile = NoProfile
    /\ roomId = 0
    /\ loading = TRUE
    /\ redirected = FALSE
    /\ messages = <<>>
    /\ channels = {}
    /\ events = {}
    /\ sends = {}

\* One run of the init effect with every answer the backend can give, and no
\* messages: the screen opens on the General room or on a direct room, and
\* may unmount at any await.
InitParams == {0, 1}
InitInit == scenario = "init" /\ InitScreen(InitParams)

InitStep ==
    \/ \E g \in Flows : GetUserResp(g)
    \/ \E g \in Flows : ProfileUpsertResp(g)
    \/ \E g \in Flows : ProfileSelectResp(g)
    \/ \E g \in Flows : GeneralLookup(g)
    \/ \E g \in Flows : GeneralInsert(g)
    \/ \E g \in Flows : MemberCheck(g)
    \/ \E g \in Flows : MemberInsert(g)
    \/ \E g \in Flows : LoadQuery(g)
    \/ \E g \in Flows : LoadResp(g)
    \/ Unmount

SpecInit == InitInit /\ [][InitStep]_vars

\* the chat screen on direct rooms, with message traffic and changes of the
\* roomId parameter
ChatParams == DOMAIN DirectRooms
InitChat == scenario = "chat" /\ InitScreen(ChatParams)

ChatStep ==
    \/ \E g \in Flows : GetUserResp(g)
    \/ \E g \in Flows : ProfileUpsertResp(g)
    \/ \E g \in Flows : ProfileSelectResp(g)
    \/ \E g \in Flows : LoadQuery(g)
    \/ \E g \in Flows : LoadResp(g)
    \/ \E rp \in ChatParams : ParamChange(rp)
    \/ Unmount
    \/ \E r \in ChatParams : RemoteInsert(r, UserId(2))
    \/ \E e \in Flows \X (1..MaxEvents) : EventApply(e)
    \/ SendInvoke
    \/ \E s \in [row : 0..MaxEvents, user : {Me}] : SendResp(s)

SpecChat == InitChat /\ [][ChatStep]_vars

\* the same screen opened once, on the first direct room: the roomId parameter
\* stays as it is
SoloStep ==
    \/ \E g \in Flows : GetUserResp(g)
    \/ \E g \in Flows : ProfileUpsertResp(g)
    \/ \E g \in Flows : ProfileSelectResp(g)
    \/ \E g \in Flows : LoadQuery(g)
    \/ \E g \in Flows : LoadResp(g)
    \/ Unmount
    \/ \E r \in ChatParams : RemoteInsert(r, UserId(2))
    \/ \E e \in Flows \X (1..MaxEvents) : EventApply(e)
    \/ SendInvoke
    \/ \E s \in [row : 0..MaxEvents, user : {Me}] : SendResp(s)

InitSolo == scenario = "chat" /\ InitScreen({1})
SpecSolo == InitSolo /\ [][SoloStep]_vars

\* The same screen with its scheduling: a request that was sent is answered,
\* and a callback that was invoked runs to its end.  Inserts by other
\* clients, sends and the unmount happen or not.
SoloFair ==
    /\ WF_vars(\E g \in Flows : GetUserResp(g))
    /\ WF_vars(\E g \in Flows : ProfileUpsertResp(g))
    /\ WF_vars(\E g \in Flows : ProfileSelectResp(g))
    /\ WF_vars(\E g \in Flows : LoadQuery(g))
    /\ WF_vars(\E g \in Flows : LoadResp(g))
    /\ WF_vars(\E e \in Flows \X (1..MaxEvents) : EventApply(e))
    /\ WF_vars(\E s \in [row : 0..MaxEvents, user : {Me}] : SendResp(s))

SpecSoloLive == InitSolo /\ [][SoloStep]_vars /\ SoloFair

\* A device on which nobody is signed in: the init effect has found no user
\* and the sign-in form is shown; handleAuth runs, one press after the other.
InitDevice(runs) ==
    /\ scenario = "auth"
    /\ rooms = <<>> /\ members = <<>> /\ profiles = <<>> /\ msgRows = <<>>
    /\ consoleErrors = {} /\ history = <<>>
    /\ pc = [g \in runs |-> "idle"]
    /\ loc = [g \in runs |-> IdleLoc]
    /\ param = 0 /\ mounted = TRUE /\ inits = 1
    /\ user = NoUser /\ profile = NoProfile /\ roomId = 0 /\ loading = FALSE
    /\ redirected = FALSE
    /\ messages = <<>> /\ channels = {} /\ events = {} /\ sends = {}

InitAuth == InitDevice(Runs)

AuthStep ==
    \/ \E g \in Runs : \E impl \in {"authScreen", "inline"} : \E filled \in BOOLEAN :
          StartAuth(g, impl, filled)
    \/ \E g \in Runs : SignInResp(g)
    \/ \E g \in Runs : SignUpResp(g)
    \/ \E g \in Runs : AuthUpsertResp(g)
    \/ \E g \in Runs : ProfileUpsertResp(g)
    \/ \E g \in Runs : ProfileSelectResp(g)
    \/ \E g \in Runs : GeneralLookup(g)
    \/ \E g \in Runs : GeneralInsert(g)
    \/ \E g \in Runs : MemberCheck(g)
    \/ \E g \in Runs : MemberInsert(g)
    \/ \E g \in Runs : LoadQuery(g)
    \/ \E g \in Runs : LoadResp(g)

SpecAuth == InitAuth /\ [][AuthStep]_vars

\* The key of getOrCreateDirectRoom on its own: ids  a, b, ab, bb, and two
\* that hold the separator,  a:b  and  b:b ; the key is computed for pairs of
\* them and the computations are kept.
KeyIds ==
    {<<97>>, <<98>>, <<97, 98>>, <<98, 98>>, <<97, Colon, 98>>, <<98, Colon, 98>>}

ComputeKey(a, b) ==
    /\ scenario = "key"
    /\ Len(history) < MaxCalls
    /\ history' = Append(history, [op |-> "key", userId |-> a, otherUserId |-> b,
                                   key |-> participantsKey(a, b)])
    /\ UNCHANGED <<scenario, storeVars, consoleErrors, pc, loc, roomId, loading, redirected,
                   screenVars>>

InitKey == scenario = "key" /\ InitStore
KeyStep == \E a, b \in KeyIds : ComputeKey(a, b)
SpecKey == InitKey /\ [][KeyStep]_vars

\* The username of ensureProfile on its own: ids of 1, 8 and 9 characters
\* (two of 9 that differ in the last one only), with and without an email;
\* the username is computed for an id and an email and the computations are kept.
NameIds ==
    {<<97>>,
     <<97, 98, 99, 100, 101, 102, 103, 104>>,
     <<97, 98, 99, 100, 101, 102, 103, 104, 105>>,
     <<97, 98, 99, 100, 101, 102, 103, 104, 106>>}

\* email absent (<<>>), or one of two addresses
NameEmails == {<<>>, MyEmail, <<98, 64, 98>>}

ComputeName(id, email) ==
    /\ scenario = "name"
    /\ Len(history) < MaxCalls
    /\ history' = Append(history, [op |-> "name", userId |-> id, email |-> email,
                                   username |-> deriveUsername(id, email)])
    /\ UNCHANGED <<scenario, storeVars, consoleErrors, pc, loc, roomId, loading, redirected,
                   screenVars>>

InitName == scenario = "name" /\ InitStore
\* Every flow that sets a loading flag, with its scheduling: the init effect
\* of a chat screen, or one press of the sign-in button of a device.  A
\* request that was sent is answered; the unmount happens or not.
InitPress == InitDevice({1})

InitEnds == InitInit \/ InitPress

EndsStep ==
    \/ \E g \in Runs : \E impl \in {"authScreen", "inline"} : \E filled \in BOOLEAN :
          g \in DOMAIN pc /\ StartAuth(g, impl, filled)
    \/ \E g \in Runs : g \in DOMAIN pc /\ SignInResp(g)
    \/ \E g \in Runs : g \in DOMAIN pc /\ SignUpResp(g)
    \/ \E g \in Runs : g \in DOMAIN pc /\ AuthUpsertResp(g)
    \/ \E g \in Flows : g \in DOMAIN pc /\ GetUserResp(g)
    \/ \E g \in Flows : g \in DOMAIN pc /\ ProfileUpsertResp(g)
    \/ \E g \in Flows : g \in DOMAIN pc /\ ProfileSelectResp(g)
    \/ \E g \in Flows : g \in DOMAIN pc /\ GeneralLookup(g)
    \/ \E g \in Flows : g \in DOMAIN pc /\ GeneralInsert(g)
    \/ \E g \in Flows : g \in DOMAIN pc /\ MemberCheck(g)
    \/ \E g \in Flows : g \in DOMAIN pc /\ MemberInsert(g)
    \/ \E g \in Flows : g \in DOMAIN pc /\ LoadQuery(g)
    \/ \E g \in Flows : g \in DOMAIN pc /\ LoadResp(g)
    \/ scenario = "init" /\ Unmount

\* the step of flow g that handles the answer of the request it awaits
Answer(g) ==
    /\ g \in DOMAIN pc
    /\ \/ SignInResp(g) \/ SignUpResp(g) \/ AuthUpsertResp(g)
       \/ GetUserResp(g) \/ ProfileUpsertResp(g) \/ ProfileSelectResp(g)
       \/ GeneralLookup(g) \/ GeneralInsert(g) \/ MemberCheck(g) \/ MemberInsert(g)
       \/ LoadQuery(g) \/ LoadResp(g)

EndsFair == \A g \in Flows : WF_vars(Answer(g))

SpecEnds == InitEnds /\ [][EndsStep]_vars /\ EndsFair

NameStep == \E id \in NameIds : \E email \in NameEmails : ComputeName(id, email)
SpecName == InitName /\ [][NameStep]_vars

\* the users screens of two devices, or the init effect of a chat screen
Procs == Devices \cup Flows
Init == InitRooms \/ InitInit
Next ==
    \/ \E p \in Devices : \E a, b \in Users : StartDirect(p, a, b)
    \/ \E p \in Devices : \E a \in Users : StartGeneral(p, a)
    \/ \E p \in Devices : scenario = "rooms" /\ DirectLookup(p)
    \/ \E p \in Devices : scenario = "rooms" /\ DirectInsert(p)
    \/ \E p \in Procs : p \in DOMAIN pc /\ GeneralLookup(p)
    \/ \E p \in Procs : p \in DOMAIN pc /\ GeneralInsert(p)
    \/ \E p \in Procs : p \in DOMAIN pc /\ MemberCheck(p)
    \/ \E p \in Procs : p \in DOMAIN pc /\ MemberInsert(p)
    \/ \E g \in Flows : scenario = "init" /\ GetUserResp(g)
    \/ \E g \in Flows : scenario = "init" /\ ProfileUpsertResp(g)
    \/ \E g \in Flows : scenario = "init" /\ ProfileSelectResp(g)
    \/ \E g \in Flows : scenario = "init" /\ LoadQuery(g)
    \/ \E g \in Flows : scenario = "init" /\ LoadResp(g)
    \/ scenario = "init" /\ Unmount
Spec == Init /\ [][Next]_vars

(***************************************************************************)
(* Properties                                                              *)
(***************************************************************************)
\* how many entries of the rendered list carry the id
Count(list, id) == Cardinality({i \in DOMAIN list : list[i]._id = id})

\* the send path has appended row id: the row is this device's and the gate's
\* answer for it has been handled
SentAppended(id) ==
    /\ id \in DOMAIN msgRows
    /\ msgRows[id].user_id = Me
    /\ [row |-> id, user |-> Me] \notin sends

\* C1: no two entries of the rendered message list share an id, whatever the
\* interleaving of the load response, the send completions and the insert
\* events.
C1_NoDuplicateIds ==
    \A i, j \in DOMAIN messages : i # j => messages[i]._id # messages[j]._id

\* C2: when the send path has appended row X and afterwards an insert event
\* for X is handled, the rendered list holds exactly one entry with id X.
C2_EventAfterSendKeepsOne ==
    [][\A e \in events :
          (mounted /\ mounted' /\ events' = events \ {e} /\ SentAppended(e[2]))
              => Count(messages', e[2]) = 1]_vars

\* the two principals of a direct-room call
Pair(h) == {h.userId, h.otherUserId}

\* a direct-room call that returned a room and met no failure on its way
CleanDirect(h) == h.op = "direct" /\ h.result # 0 /\ h.fail = {}

\* C3: once two principals have both run getOrCreateDirectRoom for their pair
\* (each on its own device, steps interleaved in any order), exactly one
\* direct room row exists for the pair and both are members of it.
C3_OneDirectRoomPerPair ==
    \A i, j \in DOMAIN history :
        (i # j /\ CleanDirect(history[i]) /\ CleanDirect(history[j])
               /\ history[j].userId = history[i].otherUserId
               /\ history[j].otherUserId = history[i].userId)
            => LET key == participantsKey(history[i].userId, history[i].otherUserId)
               IN  /\ Cardinality(DirectRoomsNamed(key)) = 1
                   /\ \A r \in DirectRoomsNamed(key) :
                          \A u \in Pair(history[i]) : IsMember(r, u)

\* the j-th call started after the i-th had returned
After(i, j) == i < j /\ history[j].startedAfter >= i

\* C4: two getOrCreateDirectRoom calls for the same two principals, run one
\* after the other with the arguments in either order, return the same room
\* id, and the second inserts no room row.
C4_SequentialCallsSameRoom ==
    \A i, j \in DOMAIN history :
        (After(i, j) /\ history[i].op = "direct" /\ history[j].op = "direct"
                     /\ Pair(history[i]) = Pair(history[j])
                     /\ history[i].result # 0 /\ history[j].result # 0)
            => /\ history[j].result = history[i].result
               /\ ~history[j].insertedRoom

\* (a, b) then (b, a) have both returned a room
C4_Witness ==
    \E i, j \in DOMAIN history :
        /\ After(i, j)
        /\ history[i].op = "direct" /\ history[j].op = "direct"
        /\ history[j].userId = history[i].otherUserId
        /\ history[j].otherUserId = history[i].userId
        /\ history[i].result # 0 /\ history[j].result # 0
        /\ history[i].insertedRoom

\* C5: after the screen is torn down (unmount, or the init effect re-run for a
\* new room parameter) no channel opened by the torn-down initialization is
\* open: every open channel belongs to the current run of a mounted screen.
C5_NoChannelAfterTeardown ==
    \A ch \in channels : mounted /\ ch.flow = inits

\* C6: a unique-constraint violation (23505) on the membership insert is not
\* reported as an error by any ensureRoomMember, and the pair keeps one row.
C6_ConflictIsSilent ==
    /\ \A e \in consoleErrors : ~(Len(e) = 3 /\ e[2] = "insert_member" /\ e[3] = "23505")
    /\ \A r \in DOMAIN rooms : \A u \in Users : Cardinality(MemberRows(r, u)) <= 1

\* the principals whose membership a call ensures
Ensured(h) == IF h.op = "direct" THEN Pair(h) ELSE {h.userId}

\* the j-th call repeats, after the i-th has returned without a failure,
\* ensureRoomMember for the same room and principals
Repeats(i, j) ==
    /\ After(i, j)
    /\ history[i].result # 0 /\ history[j].result = history[i].result
    /\ history[i].fail = {}
    /\ Ensured(history[j]) \subseteq Ensured(history[i])

\* C7: ensureRoomMember run a second time for the same room and principal,
\* after the first run is over, finds the row and attempts no insert; the
\* pair has exactly one membership row.
C7_SecondEnsureInsertsNothing ==
    \A i, j \in DOMAIN history :
        Repeats(i, j)
            => /\ history[j].inserts = 0
               /\ \A u \in Ensured(history[j]) :
                      Cardinality(MemberRows(history[j].result, u)) = 1

\* the first call inserted the rows, the second ran to its end without fault
C7_Witness ==
    \E i, j \in DOMAIN history :
        Repeats(i, j) /\ history[i].inserts > 0 /\ history[j].fail = {}

\* a send for which the gate persisted nothing: it answers with an error, with
\* no data, or with allowed = false
Refused(s) == s.row = 0

\* C8: a send the gate refuses leaves no trace: it adds no message row when
\* it is invoked, and when the answer is handled the rendered list and the
\* message rows are unchanged (no optimistic entry).
C8_RefusedSendLeavesNoTrace ==
    [][/\ \A s \in sends' \ sends : Refused(s) => msgRows' = msgRows /\ messages' = messages
       /\ \A s \in sends \ sends' :
             (Refused(s) /\ mounted') => msgRows' = msgRows /\ messages' = messages]_vars

\* the answer allowed = false (or no data) has been handled while the list
\* held entries
C8_Witness ==
    /\ <<"send", "blocked">> \in consoleErrors
    /\ messages # <<>>
    /\ mounted

\* C9: an init flow whose room lookup/insert or message load failed has
\* stopped there: it has opened no subscription and holds no channel.
C9_FailureStopsInit ==
    \A g \in DOMAIN pc :
        (scenario = "init" /\ loc[g].fail \cap {"room", "load"} # {})
            => /\ pc[g] = "done"
               /\ ~loc[g].subscribed
               /\ \A ch \in channels : ch.flow # g

\* the failures a best-effort helper can meet
BestEffort == {"profile", "member"}

\* C10: a failed profile upsert or membership check/insert does not abort the
\* primary flow: an init flow that met only such failures ends subscribed to
\* its room, and a direct-room call that met only such failures returns the
\* room's id.
C10_BestEffortFailuresContained ==
    /\ \A g \in DOMAIN pc :
          (scenario = "init" /\ pc[g] = "done"
               /\ loc[g].fail # {} /\ loc[g].fail \subseteq BestEffort)
              => loc[g].room # 0 /\ loc[g].subscribed
    /\ \A i \in DOMAIN history :
          (history[i].op = "direct"
               /\ history[i].fail # {} /\ history[i].fail \subseteq BestEffort)
              => history[i].result # 0

\* a direct-room call whose membership step failed has returned the room
C10_Witness ==
    \E i \in DOMAIN history :
        /\ history[i].op = "direct"
        /\ "member" \in history[i].fail
        /\ history[i].result # 0

\* created_at does not decrease from the list's first entry to its last
Ascending(list) ==
    \A i, j \in DOMAIN list : i < j => list[i].createdAt <= list[j].createdAt

\* C11: when loadMessages has answered with the rows of a room (fewer than
\* the limit), the message list holds all of them, oldest first.
C11_LoadPutsRowsAscending ==
    [][\A g \in DOMAIN pc :
          (pc[g] = "load_wait" /\ pc'[g] = "done" /\ mounted
               /\ Len(loc[g].snapshot) < LoadLimit /\ messages' # messages)
              => /\ Len(messages') = Len(loc[g].snapshot)
                 /\ Ascending(messages')]_vars

\* the flow awaits the upsert of an ensureProfile (either implementation)
AtUpsert(g) == pc[g] \in {"pf_upsert", "au_upsert"}

\* C12: ensureProfile run again for a principal whose row an earlier run has
\* written (same id, same contact string) leaves the profiles table as it is:
\* one row for the id, the same username, and the flow does not fail.
C12_SecondEnsureProfileChangesNothing ==
    [][\A g \in DOMAIN pc :
          (AtUpsert(g) /\ ~AtUpsert(g)' /\ loc'[g].upserted
               /\ ProfileRows(loc[g].userId) # {})
              => /\ profiles' = profiles
                 /\ Cardinality(ProfileRows(loc[g].userId)) = 1
                 /\ loc'[g].alert # "Auth error"]_vars

\* the auth screen's ensureProfile, then the chat screen's, have both written
\* the row of the same principal
C12_Witness ==
    \E g, h \in DOMAIN pc :
        /\ g < h
        /\ loc[g].caller = "authScreen" /\ loc[h].caller = "inline"
        /\ loc[g].upserted /\ loc[h].upserted
        /\ loc[g].userId = loc[h].userId
        /\ Cardinality(ProfileRows(loc[h].userId)) = 1

\* the sign-in errors that count as invalid credentials: the message is
\* 'Invalid login credentials' in either case, or the status is 400
KnownInvalid(e) ==
    \/ e.message \in {InvalidLoginCredentials, invalidLoginCredentials}
    \/ e.status = 400

\* the run's sign-in failed with an error
SignInFailed(g) == loc[g].signIn # NoAnswer /\ ~loc[g].signIn.ok

C13_KeySymmetric ==
    \A i, j \in DOMAIN history :
        (history[i].op = "key" /\ history[j].op = "key"
             /\ history[j].userId = history[i].otherUserId
             /\ history[j].otherUserId = history[i].userId)
            => history[j].key = history[i].key

\* the key has been computed for two different ids in both orders
C13_Witness ==
    \E i, j \in DOMAIN history :
        /\ history[i].op = "key" /\ history[j].op = "key"
        /\ history[i].userId # history[i].otherUserId
        /\ history[j].userId = history[i].otherUserId
        /\ history[j].otherUserId = history[i].userId
        /\ Len(history[i].userId) # Len(history[i].otherUserId)

\* the id does not hold the separator
Valid(id) == \A k \in DOMAIN id : id[k] # 58

\* the computation's ids are valid
ValidKey(h) == h.op = "key" /\ Valid(h.userId) /\ Valid(h.otherUserId)

\* C14: over ids without ':', two pairs have the same key only if they are
\* the same unordered pair.
C14_KeyCollisionFree ==
    \A i, j \in DOMAIN history :
        (ValidKey(history[i]) /\ ValidKey(history[j])
             /\ history[i].key = history[j].key)
            => Pair(history[i]) = Pair(history[j])

\* two different pairs of valid ids whose ids, put end to end, read the same,
\* have been given their keys
C14_Witness ==
    \E i, j \in DOMAIN history :
        /\ ValidKey(history[i]) /\ ValidKey(history[j])
        /\ Pair(history[i]) # Pair(history[j])
        /\ history[i].userId \o history[i].otherUserId
              = history[j].userId \o history[j].otherUserId

\* C15: in getOrCreateGeneralRoom a lookup that finds no row (no error, or
\* the "no rows" code) leads to the insert; a lookup that fails otherwise ends
\* the call: the error reaches the caller's catch, and neither a room row
\* nor a membership row is written.
C15_NotFoundCreatesOtherErrorsFail ==
    [][\A g \in DOMAIN pc :
          (pc[g] = "gr_lookup" /\ pc'[g] # "gr_lookup")
              => /\ (loc'[g].lookup \in {"null", "PGRST116"} /\ loc'[g].room = 0)
                       => (pc'[g] = "gr_insert" /\ consoleErrors' = consoleErrors)
                 /\ loc'[g].lookup \notin {"null", "PGRST116"}
                       => /\ pc'[g] = "done"
                          /\ <<"init", "other">> \in consoleErrors'
                          /\ "room" \in loc'[g].fail
                          /\ rooms' = rooms /\ members' = members]_vars

\* one init flow went on to the insert after the "no rows" code, another
\* ended on a failed lookup with the tables empty
C15_Witness ==
    \E g \in DOMAIN pc :
        /\ scenario = "init"
        /\ pc[g] = "done" /\ loc[g].lookup = "other" /\ "room" \in loc[g].fail
        /\ rooms = DirectRooms

\* C16: creating the well-known room is not exclusive.  A lookup answers
\* "not found" only while no row carries the name, but the insert that
\* follows checks nothing: it adds a row of that name whatever the table
\* holds by then, so two concurrent first callers leave two such rows.
C16_InsertIsNotExclusive ==
    [][\A p \in DOMAIN pc :
          /\ (pc[p] = "gr_lookup" /\ pc'[p] = "gr_insert")
                => RoomsNamed(GENERAL_ROOM_NAME) = {}
          /\ (pc[p] = "gr_insert" /\ loc'[p].insertedRoom)
                => /\ rooms' = Append(rooms, RoomRow(GENERAL_ROOM_NAME, FALSE, loc[p].userId))
                   /\ loc'[p].room = Len(rooms')]_vars

\* two rows carry the well-known name, inserted by the two devices' calls
C16_Witness ==
    /\ scenario = "rooms"
    /\ Cardinality(RoomsNamed(GENERAL_ROOM_NAME)) = 2
    /\ \A p \in Devices : loc[p].op = "general" /\ loc[p].insertedRoom

\* C17: while the chat screen is mounted at most one realtime channel opened
\* by it is open, also when the room parameter changes and the init effect
\* runs again while an earlier init flow is still in flight.
C17_AtMostOneChannel ==
    mounted => Cardinality(channels) <= 1

\* C19: a send completion or an insert event that adds an entry to a message
\* list ordered oldest first leaves it ordered oldest first.
C19_AppendKeepsAscending ==
    [][(mounted /\ Len(messages') = Len(messages) + 1 /\ Ascending(messages))
          => Ascending(messages')]_vars

\* C20: a getOrCreateDirectRoom(a, b) that returned a room id with no failed
\* backend call returned a direct room named by the canonical key of a and b,
\* of which a and b are both members, whether it found the room or created
\* it; a room it created has a as its creator.
C20_ReturnedDirectRoomIsComplete ==
    \A i \in DOMAIN history :
        CleanDirect(history[i])
            => LET h == history[i]
                   r == h.result
               IN  /\ r \in DOMAIN rooms
                   /\ rooms[r].is_direct
                   /\ rooms[r].name = participantsKey(h.userId, h.otherUserId)
                   /\ h.insertedRoom => rooms[r].created_by = h.userId
                   /\ IsMember(r, h.userId) /\ IsMember(r, h.otherUserId)

\* one call created the room, another (arguments swapped) found it
C20_Witness ==
    \E i, j \in DOMAIN history :
        /\ scenario = "rooms"
        /\ CleanDirect(history[i]) /\ CleanDirect(history[j])
        /\ history[i].insertedRoom /\ ~history[j].insertedRoom
        /\ history[j].userId = history[i].otherUserId
        /\ history[j].result = history[i].result

\* the first n characters of str, all of it when it is shorter
FirstChars(str, n) == [k \in 1..(IF Len(str) < n THEN Len(str) ELSE n) |-> str[k]]

\* C21: the username ensureProfile derives is the email when there is one,
\* and otherwise 'user-' followed by the first 8 characters of the id; equal
\* inputs give equal usernames.
C21_UsernameDerivation ==
    \A i, j \in DOMAIN history :
        history[i].op = "name"
            => /\ history[i].email # <<>> => history[i].username = history[i].email
               /\ history[i].email = <<>>
                     => history[i].username
                           = <<117, 115, 101, 114, 45>> \o FirstChars(history[i].userId, 8)
               /\ (history[j].op = "name" /\ history[j].userId = history[i].userId
                        /\ history[j].email = history[i].email)
                     => history[j].username = history[i].username

\* a username was derived without an email from an id longer than 8
\* characters (and was cut to 5 + 8), and another from an email
C21_Witness ==
    \E i, j \in DOMAIN history :
        /\ history[i].op = "name" /\ history[j].op = "name"
        /\ history[i].email = <<>> /\ Len(history[i].userId) > 8
        /\ Len(history[i].username) = 13
        /\ history[j].email # <<>> /\ history[j].username = history[j].email

\* the run's sign-up answered with no error but without a session
NoSession(l) ==
    l.signedUp /\ ~l.signUp.error /\ (~l.signUp.user \/ ~l.signUp.session)

\* the run has reached ensureProfile or gone past it
Proceeded(g) == pc[g] = "au_upsert" \/ loc[g].upserted \/ loc[g].navigated

\* C22: on the auth screen a sign-up that succeeds without a session (or
\* without a user) ends the run at the 'Check your email' alert, with no
\* profile upsert and no navigation; the run goes on to the upsert and the
\* navigation only after a sign-in that succeeded or a sign-up that returned
\* both a user and a session.
C22_NoSessionStopsAuth ==
    \A g \in DOMAIN pc :
        loc[g].caller = "authScreen"
            => /\ NoSession(loc[g])
                    => /\ pc[g] = "done"
                       /\ loc[g].alert = "Check your email"
                       /\ ~Proceeded(g)
               /\ Proceeded(g)
                    => \/ loc[g].signIn = SignedIn
                       \/ /\ loc[g].signedUp /\ ~loc[g].signUp.error
                          /\ loc[g].signUp.user /\ loc[g].signUp.session

\* one run ended on a sign-up with a user and no session; the next signed up
\* with a session and awaits its upsert, the first row of the profiles table
C22_Witness ==
    \E g, h \in DOMAIN pc :
        /\ scenario = "auth"
        /\ loc[g].caller = "authScreen" /\ loc[h].caller = "authScreen"
        /\ NoSession(loc[g]) /\ loc[g].signUp.user /\ pc[g] = "done"
        /\ g < h /\ profiles = <<>>
        /\ loc[h].signedUp /\ loc[h].signUp.session /\ pc[h] = "au_upsert"

\* row id was inserted by another client into the room of the current init
\* after the load query took its snapshot: the load is still awaited and its
\* snapshot lacks the row, or a callback for the row has been invoked
InsertedAfterSnapshot(id) ==
    /\ mounted /\ inits \in DOMAIN pc
    /\ id \in DOMAIN msgRows
    /\ msgRows[id].user_id # Me
    /\ msgRows[id].room_id = loc[inits].room
    /\ \/ /\ pc[inits] = "load_wait"
          /\ \A k \in DOMAIN loc[inits].snapshot : loc[inits].snapshot[k].id # id
       \/ <<inits, id>> \in events

\* the message list holds the row
Shown(id) == \E i \in DOMAIN messages : messages[i]._id = id

\* C23: a row another client inserts into the room after the load query took
\* its snapshot is in the message list in the end (as long as the screen is
\* mounted), also when it was inserted before the channel was opened.
C23_NoMessageLost ==
    \A id \in 1..MaxEvents :
        InsertedAfterSnapshot(id) ~> (Shown(id) \/ ~mounted)

\* C24: an entry the send path has put into the message list stays in it
\* while the screen is mounted; in particular the load's answer, which
\* replaces the list, does not drop an entry of a send that completed while
\* the load was awaited.
C24_SentEntryStays ==
    [][\A id \in DOMAIN msgRows :
          (mounted /\ mounted' /\ SentAppended(id) /\ Shown(id)) => Shown(id)']_vars

\* the current init has run to its end for the room the screen is on
FinishedLoading ==
    /\ mounted /\ inits \in DOMAIN pc
    /\ pc[inits] = "done" /\ loc[inits].room = param /\ roomId = param

\* C25: once the screen has finished loading its room, every entry of the
\* message list is a message of that room; nothing that belongs to the init
\* of an earlier room parameter adds or keeps a message of that room.
\* Stated for the messages of other clients, which reach the list through a
\* load or a subscription callback only.
C25_ListShowsCurrentRoomOnly ==
    FinishedLoading
        => \A i \in DOMAIN messages :
              msgRows[messages[i]._id].user_id # Me
                  => msgRows[messages[i]._id].room_id = param

\* the loading flags flow g has set are false: loading of the chat screen
\* for init, loading of the auth screen, authLoading and loading for the
\* inline form
FlagsDown(g) ==
    /\ loc[g].caller \in {"authScreen", "inline"} => ~loc[g].busy
    /\ loc[g].caller \in {"init", "inline"} => ~loading

\* flow g has started and has not ended
Running(g) == g \in DOMAIN pc /\ pc[g] \notin {"idle", "done"}

\* flow g has ended
Ended(g) == g \in DOMAIN pc /\ pc[g] = "done"

\* C26: every init flow and every sign-in run comes to its end, and at its
\* end (on a mounted screen) the loading flags it set are false, whichever
\* way it ended; and on the chat screen, whenever loading is false and there
\* is no user, the redirect to the auth screen has been issued.
C26_FlowsEndNotLoading ==
    /\ [][\A g \in DOMAIN pc :
             (pc[g] # "done" /\ pc'[g] = "done" /\ mounted') => FlagsDown(g)']_vars
    /\ \A g \in Flows : Running(g) ~> Ended(g)
    /\ [](HasRedirect /\ mounted /\ ~loading /\ user = NoUser => redirected)

\* the init of a mounted chat screen has ended having found no user: loading
\* is false and the redirect has been issued
C26_Witness ==
    /\ scenario = "init" /\ mounted
    /\ pc[inits] = "done" /\ loc[inits].userId = <<>>
    /\ user = NoUser /\ ~loading /\ redirected
====
